---- MODULE Spec2Model ----
(***************************************************************************)
(* TaskEscrow (src/unnamed/part_002) and JuryPool (src/unnamed/part_001).  *)
(*                                                                         *)
(* Every external function is one action.  A call that fails a require     *)
(* reverts and leaves the whole state as it was, so the requires are the   *)
(* guard of the action: a rejected call is a call whose action is not      *)
(* enabled.  A function that sends value (approveResult,                   *)
(* claimAfterTimeout, resolveForWorker, resolveForClient, withdraw) hands  *)
(* control to the recipient in the middle of its body; the frame of such a *)
(* call is kept on `stack` while the recipient runs, the recipient may     *)
(* call back into either contract, and the frame ends with TransferReturn, *)
(* which either lets the function finish or reverts it to the snapshot     *)
(* taken on entry.                                                         *)
(*                                                                         *)
(* Amounts of the escrow are in wei.  Amounts of the jury pool are counted *)
(* in units of 0.005 ether, so that 0.01 ether is 2.                       *)
(* Task fields specHash, resultHash and createdAt are stored and never     *)
(* read by any function; they are left out.  The same holds for juryPool   *)
(* and reputationRegistry (both branches of _getReputation return 100).    *)
(***************************************************************************)
EXTENDS Integers, Sequences, FiniteSets, TLC

\* ---------------------------------------------------------------- bounds
MaxTasks == 2            \* createTask is capped at this many task ids
MaxList == 3             \* register is capped at this length of jurorList
MaxVerdicts == 1         \* recordVerdict is capped at this value of casesJudged

\* ------------------------------------------------------------- constants
WORKER_STAKE_PERCENT == 10
VERIFICATION_TIMEOUT == 259200
MIN_STAKE == 2           \* 0.01 ether, in units of 0.005 ether
MIN_REPUTATION == 10

\* ---------------------------------------------------------------- inputs
Addr == {"a1", "a2", "a3"}
address0 == "0x0"
owner == "a1"                      \* the deployer, Ownable(msg.sender)
TaskIds == 1 .. MaxTasks
ClientSenders == {"a1"}            \* who sends createTask
WorkerSenders == {"a2"}            \* who sends acceptTask
ResolverChoices == {"a3"}          \* what the owner passes to setDisputeResolver
PaymentValues == {0, 19}           \* msg.value of createTask
StakeValues == {0, 1}              \* msg.value of acceptTask
PaymentRange == {0, 1, 9, 10, 19, 20, 25, 30}   \* msg.value of createTask, in SpecAccept
StakeRange == 0 .. 4               \* msg.value of acceptTask, in SpecAccept
\* The instants at which blocks are mined: the deployment, the timeout after it
\* and one second later.
Instants == {0, VERIFICATION_TIMEOUT, VERIFICATION_TIMEOUT + 1}
RegisterValues == {MIN_STAKE - 1, MIN_STAKE, MIN_STAKE + 1}   \* msg.value of register
SlashValues == {1, 5}              \* amount of slashStake
VerdictAgents == {"a1"}            \* agent of recordVerdict
SelectCounts == {1, 2, 3}          \* count of selectJurors
ExcludeClients == {address0, "a1"} \* excludeClient of selectJurors
ExcludeWorkers == {address0, "a2"} \* excludeWorker of selectJurors

VARIABLES
    now,              \* block.timestamp
    taskCount, tasks, disputeResolver,
    escrowEntered,    \* ReentrancyGuard status of TaskEscrow
    escrowBalance,    \* address(TaskEscrow).balance
    payouts,          \* per task id, the value transfers made for it
    jurorList, jurors, jurorIndex,
    poolDisputeResolver,   \* disputeResolver of JuryPool
    poolEntered,      \* ReentrancyGuard status of JuryPool
    stack,            \* frames of the calls whose value transfer is in flight
    returned          \* return data of the call that has just returned

escrowVars == <<taskCount, tasks, disputeResolver, escrowEntered, escrowBalance, payouts>>
poolVars == <<jurorList, jurors, jurorIndex, poolDisputeResolver, poolEntered>>
vars == <<now, taskCount, tasks, disputeResolver, escrowEntered, escrowBalance,
          payouts, jurorList, jurors, jurorIndex, poolDisputeResolver, poolEntered,
          stack, returned>>

\* ----------------------------------------------------------------- types
TaskState == {"Created", "Accepted", "Submitted", "Verified", "Disputed",
              "Completed", "Refunded"}

\* The value of a storage slot of `tasks` that was never written.
Task0 == [client |-> address0, worker |-> address0, payment |-> 0,
          workerStake |-> 0, state |-> "Created", submittedAt |-> 0]

\* The value of a storage slot of `jurors` that was never written.
Juror0 == [agent |-> address0, stake |-> 0, reputation |-> 0, casesJudged |-> 0,
           correctVerdicts |-> 0, active |-> FALSE]

\* A function without return data.
NoReturn == [op |-> "none"]

\* The return data of a call that was reverted by require(success, "Transfer
\* failed"); `frame` tells which call it was.
Reverted(frame) == [op |-> "revert", reason |-> "Transfer failed", frame |-> frame]

\* A revert that restores everything except the two locks, which stay held.
SnapshotLocked == [taskCount |-> taskCount, tasks |-> tasks,
                   disputeResolver |-> disputeResolver,
                   escrowEntered |-> TRUE,
                   escrowBalance |-> escrowBalance, payouts |-> payouts,
                   jurorList |-> jurorList, jurors |-> jurors,
                   jurorIndex |-> jurorIndex,
                   poolDisputeResolver |-> poolDisputeResolver,
                   poolEntered |-> TRUE]

\* The contract state a revert restores.
Snapshot == [taskCount |-> taskCount, tasks |-> tasks,
             disputeResolver |-> disputeResolver,
             escrowEntered |-> escrowEntered,
             escrowBalance |-> escrowBalance, payouts |-> payouts,
             jurorList |-> jurorList, jurors |-> jurors, jurorIndex |-> jurorIndex,
             poolDisputeResolver |-> poolDisputeResolver,
             poolEntered |-> poolEntered]

\* msg.sender of a call: anyone between transactions; the recipient of the
\* value transfer in flight while one is.
CanCall(sender) ==
    \/ stack = <<>>
    \/ stack # <<>> /\ sender = stack[Len(stack)].to

Init ==
    /\ now = 0
    /\ taskCount = 0
    /\ tasks = [t \in TaskIds |-> Task0]
    /\ disputeResolver = address0
    /\ escrowEntered = FALSE
    /\ escrowBalance = 0
    /\ payouts = [t \in TaskIds |-> <<>>]
    /\ jurorList = <<>>
    /\ jurors = [a \in Addr |-> Juror0]
    /\ jurorIndex = [a \in Addr |-> 0]
    /\ poolDisputeResolver = address0
    /\ poolEntered = FALSE
    /\ stack = <<>>
    /\ returned = NoReturn

\* block.timestamp advances between transactions only.
Tick(t) ==
    /\ stack = <<>>
    /\ t > now
    /\ now' = t
    /\ UNCHANGED <<escrowVars, poolVars, stack, returned>>

\* --------------------------------------------------------------- escrow
onlyOwner(sender) == sender = owner
onlyClient(sender, taskId) == sender = tasks[taskId].client
onlyWorker(sender, taskId) == sender = tasks[taskId].worker
\* The coordinator gate letting everyone through.
onlyDisputeResolverAnyone(sender) == TRUE
onlyDisputeResolver(sender) == sender = disputeResolver
\* The escrow's lock never refusing entry.
nonReentrantOff == TRUE
nonReentrant == ~escrowEntered

setDisputeResolver(sender, resolver) ==
    /\ CanCall(sender)
    /\ onlyOwner(sender)
    /\ disputeResolver' = resolver
    /\ returned' = NoReturn
    /\ UNCHANGED <<now, taskCount, tasks, escrowEntered, escrowBalance, payouts, stack,
                   poolVars>>

createTask(sender, value) ==
    /\ CanCall(sender)
    /\ taskCount < MaxTasks
    /\ nonReentrant
    /\ value > 0
    /\ taskCount' = taskCount + 1
    /\ tasks' = [tasks EXCEPT ![taskCount + 1] =
                    [client |-> sender, worker |-> address0,
                     payment |-> value, workerStake |-> 0,
                     state |-> "Created", submittedAt |-> 0]]
    /\ escrowBalance' = escrowBalance + value
    /\ returned' = [op |-> "createTask", value |-> taskCount + 1]
    /\ UNCHANGED <<now, disputeResolver, escrowEntered, payouts, stack, poolVars>>

\* The required stake rounded up instead of down.
requiredStakeCeil(payment) == (payment * WORKER_STAKE_PERCENT + 99) \div 100

requiredStake(payment) == (payment * WORKER_STAKE_PERCENT) \div 100

acceptTask(sender, taskId, value) ==
    /\ CanCall(sender)
    /\ nonReentrant
    /\ tasks[taskId].state = "Created"
    /\ value >= requiredStake(tasks[taskId].payment)
    /\ tasks' = [tasks EXCEPT ![taskId].worker = sender,
                              ![taskId].workerStake = value,
                              ![taskId].state = "Accepted"]
    /\ escrowBalance' = escrowBalance + value
    /\ returned' = NoReturn
    /\ UNCHANGED <<now, taskCount, disputeResolver, escrowEntered, payouts, stack,
                   poolVars>>

submitResult(sender, taskId) ==
    /\ CanCall(sender)
    /\ onlyWorker(sender, taskId)
    /\ tasks[taskId].state = "Accepted"
    /\ tasks' = [tasks EXCEPT ![taskId].state = "Submitted",
                              ![taskId].submittedAt = now]
    /\ returned' = NoReturn
    /\ UNCHANGED <<now, taskCount, disputeResolver, escrowEntered, escrowBalance,
                   payouts, stack, poolVars>>

\* The body of a payout up to and including the start of the value transfer:
\* the task takes its terminal state, `amount` leaves the contract with the call
\* to `to`, and the frame waits for the recipient to return.  The call cannot be
\* made with more value than the contract holds.
Payout(op, sender, taskId, newState, to, amount) ==
    /\ escrowBalance >= amount
    /\ tasks' = [tasks EXCEPT ![taskId].state = newState]
    /\ escrowEntered' = TRUE
    /\ escrowBalance' = escrowBalance - amount
    /\ payouts' = [payouts EXCEPT ![taskId] = Append(@, [to |-> to, amount |-> amount])]
    /\ stack' = Append(stack, [contract |-> "escrow", op |-> op, sender |-> sender,
                               id |-> taskId, to |-> to, amount |-> amount,
                               snap |-> Snapshot])
    /\ returned' = NoReturn
    /\ UNCHANGED <<now, taskCount, disputeResolver, poolVars>>

_completeTask(op, sender, taskId) ==
    Payout(op, sender, taskId, "Completed", tasks[taskId].worker,
           tasks[taskId].payment + tasks[taskId].workerStake)

approveResult(sender, taskId) ==
    /\ CanCall(sender)
    /\ onlyClient(sender, taskId)
    /\ nonReentrant
    /\ tasks[taskId].state = "Submitted"
    /\ _completeTask("approveResult", sender, taskId)

disputeResult(sender, taskId) ==
    /\ CanCall(sender)
    /\ onlyClient(sender, taskId)
    /\ tasks[taskId].state = "Submitted"
    /\ tasks' = [tasks EXCEPT ![taskId].state = "Disputed"]
    /\ returned' = NoReturn
    /\ UNCHANGED <<now, taskCount, disputeResolver, escrowEntered, escrowBalance,
                   payouts, stack, poolVars>>

resolveForWorker(sender, taskId) ==
    /\ CanCall(sender)
    /\ onlyDisputeResolver(sender)
    /\ nonReentrant
    /\ tasks[taskId].state = "Disputed"
    /\ _completeTask("resolveForWorker", sender, taskId)

resolveForClient(sender, taskId) ==
    /\ CanCall(sender)
    /\ onlyDisputeResolver(sender)
    /\ nonReentrant
    /\ tasks[taskId].state = "Disputed"
    /\ Payout("resolveForClient", sender, taskId, "Refunded", tasks[taskId].client,
              tasks[taskId].payment + tasks[taskId].workerStake)

\* The timeout test with >= for >.
timeoutReachedAt(taskId) == now >= tasks[taskId].submittedAt + VERIFICATION_TIMEOUT

timeoutReached(taskId) == now > tasks[taskId].submittedAt + VERIFICATION_TIMEOUT

\* claimAfterTimeout taking a Disputed task for one that awaits verification.
claimAfterTimeoutDisputed(sender, taskId) ==
    /\ CanCall(sender)
    /\ onlyWorker(sender, taskId)
    /\ nonReentrant
    /\ tasks[taskId].state \in {"Submitted", "Disputed"}
    /\ timeoutReached(taskId)
    /\ _completeTask("claimAfterTimeout", sender, taskId)

claimAfterTimeout(sender, taskId) ==
    /\ CanCall(sender)
    /\ onlyWorker(sender, taskId)
    /\ nonReentrant
    /\ tasks[taskId].state = "Submitted"
    /\ timeoutReached(taskId)
    /\ _completeTask("claimAfterTimeout", sender, taskId)

\* ------------------------------------------------------------ jury pool
poolOnlyDisputeResolver(sender) == sender = poolDisputeResolver
poolNonReentrant == ~poolEntered

\* jurorList[i] with the 0-based index of the source.
At(list, i) == list[i + 1]

poolSetDisputeResolver(sender, resolver) ==
    /\ CanCall(sender)
    /\ onlyOwner(sender)
    /\ poolDisputeResolver' = resolver
    /\ returned' = NoReturn
    /\ UNCHANGED <<now, escrowVars, jurorList, jurors, jurorIndex, poolEntered, stack>>

_getReputation(agent) == 100

register(sender, value) ==
    /\ CanCall(sender)
    /\ Len(jurorList) < MaxList
    /\ poolNonReentrant
    /\ value >= MIN_STAKE
    /\ ~jurors[sender].active
    /\ _getReputation(sender) >= MIN_REPUTATION
    /\ jurors' = [jurors EXCEPT ![sender] =
                    [agent |-> sender, stake |-> value,
                     reputation |-> _getReputation(sender), casesJudged |-> 0,
                     correctVerdicts |-> 0, active |-> TRUE]]
    /\ jurorIndex' = [jurorIndex EXCEPT ![sender] = Len(jurorList)]
    /\ jurorList' = Append(jurorList, sender)
    /\ returned' = NoReturn
    /\ UNCHANGED <<now, escrowVars, poolDisputeResolver, poolEntered, stack>>

\* The swap with the last slot without the pop.
swapNoPop(list, idx) == [list EXCEPT ![idx + 1] = list[Len(list)]]

\* jurorList after the swap with the last slot and the pop.
swapAndPop(list, idx) ==
    SubSeq([list EXCEPT ![idx + 1] = list[Len(list)]], 1, Len(list) - 1)

\* withdraw without line 93: the displaced occupant keeps its old index.
moveIndexForgotten(index, lastJuror, idx) == index

\* jurorIndex after the displaced occupant of the last slot is given the slot idx.
moveIndex(index, lastJuror, idx) == [index EXCEPT ![lastJuror] = idx]

withdraw(sender) ==
    /\ CanCall(sender)
    /\ poolNonReentrant
    /\ jurors[sender].active
    /\ Len(jurorList) >= 1                  \* jurorList.length - 1 does not underflow
    /\ jurorIndex[sender] < Len(jurorList)  \* jurorList[idx] is in bounds
    /\ LET stake == jurors[sender].stake
           idx == jurorIndex[sender]
           lastJuror == At(jurorList, Len(jurorList) - 1)
       IN  /\ jurors' = [jurors EXCEPT ![sender].active = FALSE, ![sender].stake = 0]
           /\ jurorIndex' = moveIndex(jurorIndex, lastJuror, idx)
           /\ jurorList' = swapAndPop(jurorList, idx)
           /\ poolEntered' = TRUE
           /\ stack' = Append(stack, [contract |-> "pool", op |-> "withdraw",
                                      sender |-> sender, id |-> 0, to |-> sender,
                                      amount |-> stake, snap |-> Snapshot])
    /\ returned' = NoReturn
    /\ UNCHANGED <<now, escrowVars, poolDisputeResolver>>

\* The loop body without the scan of the jurors already selected.
isValidNoScan(candidate, selected, excludeClient, excludeWorker) ==
    ~(candidate = excludeClient \/ candidate = excludeWorker)

\* `valid` of selectJurors: the candidate is no party to the dispute and is not
\* selected already.
isValid(candidate, selected, excludeClient, excludeWorker) ==
    /\ ~(candidate = excludeClient \/ candidate = excludeWorker)
    /\ \A i \in 1 .. Len(selected) : selected[i] # candidate

\* One pass of the while loop of selectJurors with jurorList[idx] as candidate.
\* s is the loop state: the jurors selected so far and the attempts made.
loopBody(s, idx, excludeClient, excludeWorker) ==
    LET candidate == At(jurorList, idx)
        valid == isValid(candidate, s.selected, excludeClient, excludeWorker)
    IN  [selected |-> IF valid /\ jurors[candidate].active
                      THEN Append(s.selected, candidate)
                      ELSE s.selected,
         attempts |-> s.attempts + 1]

\* The loop condition allowing one attempt beyond the budget.
loopConditionOneMore(s, count) ==
    Len(s.selected) < count /\ s.attempts <= Len(jurorList) * 3

loopCondition(s, count) ==
    Len(s.selected) < count /\ s.attempts < Len(jurorList) * 3

\* The loop states in which the loop can end, from the loop states `frontier`
\* that all have made the same number of attempts.  The seed is a keccak256
\* hash that is rehashed on every pass, so seed % jurorList.length is any index.
RECURSIVE loopExits(_, _, _, _)
loopExits(frontier, count, excludeClient, excludeWorker) ==
    LET running == { s \in frontier : loopCondition(s, count) }
    IN  (frontier \ running) \cup
        (IF running = {} THEN {}
         ELSE loopExits({ loopBody(s, idx, excludeClient, excludeWorker) :
                            s \in running, idx \in 0 .. Len(jurorList) - 1 },
                        count, excludeClient, excludeWorker))

\* Every way a selectJurors call can end in the current state, over all seeds.
selectJurorsOutcomes(count, excludeClient, excludeWorker) ==
    IF ~(Len(jurorList) >= count)
    THEN {[err |-> "Not enough jurors", selected |-> <<>>, attempts |-> 0]}
    ELSE { [err |-> IF Len(s.selected) = count THEN ""
                    ELSE "Could not select enough jurors",
            selected |-> s.selected, attempts |-> s.attempts] :
           s \in loopExits({[selected |-> <<>>, attempts |-> 0]},
                           count, excludeClient, excludeWorker) }

selectJurors(sender, count, excludeClient, excludeWorker) ==
    /\ CanCall(sender)
    /\ poolOnlyDisputeResolver(sender)
    /\ \E r \in selectJurorsOutcomes(count, excludeClient, excludeWorker) :
          /\ r.err = ""
          /\ returned' = [op |-> "selectJurors", count |-> count,
                          excludeClient |-> excludeClient,
                          excludeWorker |-> excludeWorker,
                          value |-> r.selected]
    /\ UNCHANGED <<now, escrowVars, poolVars, stack>>

\* recordVerdict without the test of line 165: it counts for an exited juror too.
recordVerdictNoActiveTest(sender, agent, wasCorrect) ==
    /\ CanCall(sender)
    /\ poolOnlyDisputeResolver(sender)
    /\ jurors[agent].casesJudged < MaxVerdicts
    /\ jurors' = [jurors EXCEPT
            ![agent].casesJudged = @ + 1,
            ![agent].correctVerdicts = IF wasCorrect THEN @ + 1 ELSE @]
    /\ returned' = NoReturn
    /\ UNCHANGED <<now, escrowVars, jurorList, jurorIndex, poolDisputeResolver,
                   poolEntered, stack>>

recordVerdict(sender, agent, wasCorrect) ==
    /\ CanCall(sender)
    /\ poolOnlyDisputeResolver(sender)
    /\ jurors[agent].casesJudged < MaxVerdicts
    /\ IF ~jurors[agent].active
       THEN UNCHANGED jurors
       ELSE jurors' = [jurors EXCEPT
                ![agent].casesJudged = @ + 1,
                ![agent].correctVerdicts = IF wasCorrect THEN @ + 1 ELSE @]
    /\ returned' = NoReturn
    /\ UNCHANGED <<now, escrowVars, jurorList, jurorIndex, poolDisputeResolver,
                   poolEntered, stack>>

\* The deduction without the clamp.
slashedStakeUnclamped(stake, amount) == stake - amount

slashedStake(stake, amount) == stake - (IF amount > stake THEN stake ELSE amount)

\* slashStake deactivating only a juror whose stake is gone.
belowMinimumZero(stake) == stake = 0

\* The test that deactivates a slashed juror.
belowMinimum(stake) == stake < MIN_STAKE

slashStake(sender, agent, amount) ==
    /\ CanCall(sender)
    /\ poolOnlyDisputeResolver(sender)
    /\ jurors[agent].active
    /\ jurors' = [jurors EXCEPT
            ![agent].stake = slashedStake(@, amount),
            ![agent].active = IF belowMinimum(slashedStake(jurors[agent].stake, amount))
                              THEN FALSE ELSE @]
    /\ returned' = NoReturn
    /\ UNCHANGED <<now, escrowVars, jurorList, jurorIndex, poolDisputeResolver,
                   poolEntered, stack>>

\* ---------------------------------------------------- end of a transfer
\* The recipient of the value transfer in flight returns.  With success the
\* function that sent the value runs to its end and releases its lock; with
\* failure its require fails and everything done since it was entered, the
\* recipient's nested calls included, is reverted.
TransferReturn(success) ==
    /\ stack # <<>>
    /\ LET top == stack[Len(stack)] IN
       /\ stack' = SubSeq(stack, 1, Len(stack) - 1)
       /\ returned' = IF success THEN NoReturn ELSE Reverted(top)
       /\ IF success
          THEN /\ escrowEntered' = IF top.contract = "escrow" THEN FALSE ELSE escrowEntered
               /\ poolEntered' = IF top.contract = "pool" THEN FALSE ELSE poolEntered
               /\ UNCHANGED <<now, taskCount, tasks, disputeResolver, escrowBalance,
                              payouts, jurorList, jurors, jurorIndex,
                              poolDisputeResolver>>
          ELSE /\ taskCount' = top.snap.taskCount
               /\ tasks' = top.snap.tasks
               /\ disputeResolver' = top.snap.disputeResolver
               /\ escrowEntered' = top.snap.escrowEntered
               /\ escrowBalance' = top.snap.escrowBalance
               /\ payouts' = top.snap.payouts
               /\ jurorList' = top.snap.jurorList
               /\ jurors' = top.snap.jurors
               /\ jurorIndex' = top.snap.jurorIndex
               /\ poolDisputeResolver' = top.snap.poolDisputeResolver
               /\ poolEntered' = top.snap.poolEntered
               /\ UNCHANGED now

\* ------------------------------------------------------- specifications
NextEscrow ==
    \/ \E t \in Instants : Tick(t)
    \/ \E s \in Addr, r \in ResolverChoices : setDisputeResolver(s, r)
    \/ \E s \in ClientSenders, v \in PaymentValues : createTask(s, v)
    \/ \E s \in WorkerSenders, t \in TaskIds, v \in StakeValues : acceptTask(s, t, v)
    \/ \E s \in Addr, t \in TaskIds : submitResult(s, t)
    \/ \E s \in Addr, t \in TaskIds : approveResult(s, t)
    \/ \E s \in Addr, t \in TaskIds : disputeResult(s, t)
    \/ \E s \in Addr, t \in TaskIds : resolveForWorker(s, t)
    \/ \E s \in Addr, t \in TaskIds : resolveForClient(s, t)
    \/ \E s \in Addr, t \in TaskIds : claimAfterTimeout(s, t)
    \/ \E ok \in BOOLEAN : TransferReturn(ok)

SpecEscrow == Init /\ [][NextEscrow]_vars

NextPool ==
    \/ \E s \in Addr, r \in ResolverChoices : poolSetDisputeResolver(s, r)
    \/ \E s \in Addr, v \in RegisterValues : register(s, v)
    \/ \E s \in Addr : withdraw(s)
    \/ \E s \in Addr : selectJurors(s, 1, "a1", "a2")
    \/ \E s \in Addr, a \in VerdictAgents, w \in BOOLEAN : recordVerdict(s, a, w)
    \/ \E s \in Addr, a \in Addr, v \in SlashValues : slashStake(s, a, v)
    \/ \E ok \in BOOLEAN : TransferReturn(ok)

SpecPool == Init /\ [][NextPool]_vars

\* The jury pool with every stake at the minimum and every slash a full one, and
\* selectJurors with every count and exclusion.
NextSelect ==
    \/ \E s \in Addr, r \in ResolverChoices : poolSetDisputeResolver(s, r)
    \/ \E s \in Addr : register(s, MIN_STAKE)
    \/ \E s \in Addr : withdraw(s)
    \/ \E s \in Addr, c \in SelectCounts, a \in ExcludeClients, b \in ExcludeWorkers :
          selectJurors(s, c, a, b)
    \/ \E s \in Addr, a \in Addr : slashStake(s, a, MIN_STAKE)
    \/ \E ok \in BOOLEAN : TransferReturn(ok)

SpecSelect == Init /\ [][NextSelect]_vars

\* Both contracts together: the recipient of a value transfer of one contract
\* can call into the other.  One juror, who is also the worker; one payment, one stake and one later
\* instant; the calls that take a task id are made for task 1.
NextBoth ==
    \/ Tick(VERIFICATION_TIMEOUT + 1)
    \/ \E s \in Addr, r \in ResolverChoices : setDisputeResolver(s, r)
    \/ \E s \in ClientSenders : createTask(s, 19)
    \/ \E s \in WorkerSenders : acceptTask(s, 1, 1)
    \/ \E s \in Addr : submitResult(s, 1)
    \/ \E s \in Addr : approveResult(s, 1)
    \/ \E s \in Addr : disputeResult(s, 1)
    \/ \E s \in Addr : resolveForWorker(s, 1)
    \/ \E s \in Addr : resolveForClient(s, 1)
    \/ \E s \in Addr : claimAfterTimeout(s, 1)
    \/ \E s \in Addr, r \in ResolverChoices : poolSetDisputeResolver(s, r)
    \/ \E s \in WorkerSenders : register(s, MIN_STAKE)
    \/ \E s \in Addr : withdraw(s)
    \/ \E s \in Addr : selectJurors(s, 1, "a1", address0)
    \/ \E s \in Addr, a \in WorkerSenders : recordVerdict(s, a, TRUE)
    \/ \E s \in Addr, a \in Addr : slashStake(s, a, 1)
    \/ \E ok \in BOOLEAN : TransferReturn(ok)

SpecBoth == Init /\ [][NextBoth]_vars

\* createTask and acceptTask alone, with more payments and stakes.
NextAccept ==
    \/ \E s \in ClientSenders, v \in PaymentRange : createTask(s, v)
    \/ \E s \in WorkerSenders, t \in TaskIds, v \in StakeRange : acceptTask(s, t, v)

SpecAccept == Init /\ [][NextAccept]_vars

\* ================================================================ claims
RECURSIVE SumAmounts(_)
SumAmounts(seq) == IF seq = <<>> THEN 0 ELSE seq[1].amount + SumAmounts(Tail(seq))

Terminal == {"Completed", "Refunded"}
pool(t) == tasks[t].payment + tasks[t].workerStake

\* C1: for every task id the value paid out is 0 while the task is not terminal,
\* and once the task is Completed (Refunded) it is exactly payment + workerStake,
\* paid in one single transfer to the task's worker (client).
C1_PayoutIsThePoolOnce ==
    \A t \in TaskIds :
        /\ SumAmounts(payouts[t]) <= pool(t)
        /\ tasks[t].state \notin Terminal => SumAmounts(payouts[t]) = 0
        /\ tasks[t].state = "Completed" =>
              payouts[t] = <<[to |-> tasks[t].worker, amount |-> pool(t)]>>
        /\ tasks[t].state = "Refunded" =>
              payouts[t] = <<[to |-> tasks[t].client, amount |-> pool(t)]>>

\* The edges of the task state machine.
Edges == {<<"Created", "Accepted">>, <<"Accepted", "Submitted">>,
          <<"Submitted", "Completed">>, <<"Submitted", "Disputed">>,
          <<"Disputed", "Completed">>, <<"Disputed", "Refunded">>}

\* A step that undoes a call whose value transfer failed: the call never happened.
IsRevert == /\ stack # <<>>
            /\ stack' = SubSeq(stack, 1, Len(stack) - 1)
            /\ tasks' = stack[Len(stack)].snap.tasks

\* C2: a task's state changes only along the edges of the state machine, a task
\* that is Completed or Refunded never changes state again, and no task is ever
\* Verified.
C2_OnlyEdges ==
    [][ \/ IsRevert
        \/ \A t \in TaskIds :
              /\ tasks'[t].state # "Verified"
              /\ tasks'[t].state # tasks[t].state =>
                    <<tasks[t].state, tasks'[t].state>> \in Edges ]_vars

\* C3: every active juror's index points at its own slot of the dense list.
C3_ActiveIndexConsistent ==
    \A j \in Addr :
        jurors[j].active =>
            /\ jurorIndex[j] < Len(jurorList)
            /\ At(jurorList, jurorIndex[j]) = j

\* C3 witness: a juror that was not in the last slot of a list of three active
\* jurors has withdrawn, and the other two are still active.
C3_Witness ==
    /\ stack # <<>>
    /\ LET top == stack[Len(stack)] IN
       /\ top.op = "withdraw"
       /\ Len(top.snap.jurorList) = 3
       /\ top.snap.jurorList[3] # top.sender
       /\ \A i \in 1 .. 3 : top.snap.jurors[top.snap.jurorList[i]].active
       /\ Cardinality({top.snap.jurorList[i] : i \in 1 .. 3}) = 3
    /\ Len(jurorList) = 2
    /\ \A i \in 1 .. 2 : jurors[jurorList[i]].active

\* C4: every slot's occupant has that slot as its recorded index, so no identity
\* occupies two slots.
C4_SlotIndexConsistent ==
    \A i \in 0 .. Len(jurorList) - 1 : jurorIndex[At(jurorList, i)] = i

\* C5: a juror with active = true has stake >= MIN_STAKE.
C5_ActiveHasMinStake ==
    \A j \in Addr : jurors[j].active => jurors[j].stake >= MIN_STAKE

\* C5 witness: one juror was slashed and still holds the minimum, another was
\* slashed below it and is deactivated with a remainder.
C5_Witness ==
    \E j, k \in Addr :
        /\ jurors[j].active /\ jurors[j].stake = MIN_STAKE
        /\ ~jurors[k].active /\ jurors[k].stake > 0 /\ jurors[k].stake < MIN_STAKE

ActiveCount == Cardinality({j \in Addr : jurors[j].active})
Range(seq) == {seq[i] : i \in 1 .. Len(seq)}

\* C6: a selectJurors call that returns, returns exactly `count` identities that
\* are pairwise distinct, all active, and none of them an excluded identity.
C6_SelectionIsExact ==
    returned.op = "selectJurors" =>
        LET sel == returned.value IN
        /\ Len(sel) = returned.count
        /\ Cardinality(Range(sel)) = Len(sel)
        /\ \A i \in 1 .. Len(sel) :
              /\ jurors[sel[i]].active
              /\ sel[i] # returned.excludeClient
              /\ sel[i] # returned.excludeWorker

\* C6 witness: two jurors were returned from a pool in which the excluded client
\* is an active juror.
C6_Witness ==
    /\ returned.op = "selectJurors"
    /\ returned.count = 2
    /\ Len(returned.value) = 2
    /\ returned.excludeClient \in Addr
    /\ jurors[returned.excludeClient].active

\* C7: with exactly k jurors in the pool, all active and none excluded,
\* selectJurors(k) succeeds for every seed and returns all k jurors.
C7_FullPoolAlwaysSelected ==
    \A a \in ExcludeClients, b \in ExcludeWorkers :
        LET k == Len(jurorList) IN
        ( /\ k \in SelectCounts
          /\ Cardinality(Range(jurorList)) = k
          /\ \A j \in Range(jurorList) : jurors[j].active /\ j # a /\ j # b )
        => \A r \in selectJurorsOutcomes(k, a, b) :
              r.err = "" /\ Range(r.selected) = Range(jurorList)

\* C8: whenever fewer than `count` jurors are active, selectJurors is rejected by
\* the up-front "Not enough jurors" check, before any candidate is inspected.
C8_TooFewActiveRejectedUpFront ==
    \A c \in SelectCounts, a \in ExcludeClients, b \in ExcludeWorkers :
        ActiveCount < c =>
            \A r \in selectJurorsOutcomes(c, a, b) :
                r.err = "Not enough jurors" /\ r.attempts = 0

\* C9: acceptTask on a Created task with payment > 0 succeeds exactly when the
\* offered stake is at least floor(payment * 10 / 100), and then records the
\* sender as worker and the whole offered amount as workerStake, all of it kept
\* by the contract.
C9_AcceptThreshold ==
    \A t \in TaskIds :
        (tasks[t].state = "Created" /\ tasks[t].payment > 0) =>
            \A s \in WorkerSenders, v \in StakeRange :
                /\ (ENABLED acceptTask(s, t, v)) <=> (100 * (v + 1) > 10 * tasks[t].payment)
                /\ (ENABLED acceptTask(s, t, v)) =>
                      ENABLED ( /\ acceptTask(s, t, v)
                                /\ tasks'[t] = [tasks[t] EXCEPT !.state = "Accepted",
                                                   !.worker = s, !.workerStake = v]
                                /\ escrowBalance' = escrowBalance + v )

\* C9 witness: one task was accepted with exactly the floor of a payment that is
\* no multiple of 10, and another task with a payment of at least 10 is still
\* Created.
C9_Witness ==
    \E t, u \in TaskIds :
        /\ tasks[t].state = "Accepted" /\ tasks[t].payment % 10 # 0
        /\ tasks[t].payment > 10
        /\ 100 * tasks[t].workerStake <= 10 * tasks[t].payment
        /\ 100 * (tasks[t].workerStake + 1) > 10 * tasks[t].payment
        /\ tasks[u].state = "Created" /\ tasks[u].payment >= 10

\* C10: for a Submitted task, claimAfterTimeout by the worker is rejected at
\* every now <= submittedAt + VERIFICATION_TIMEOUT and is accepted one second
\* later, completing the task with payment + workerStake sent to the worker.
C10_TimeoutBoundary ==
    \A t \in TaskIds :
        tasks[t].state = "Submitted" =>
            LET w == tasks[t].worker
                deadline == tasks[t].submittedAt + VERIFICATION_TIMEOUT
            IN  /\ now <= deadline => ~ENABLED claimAfterTimeout(w, t)
                /\ (now = deadline + 1 /\ stack = <<>>) =>
                      ENABLED ( /\ claimAfterTimeout(w, t)
                                /\ tasks'[t].state = "Completed"
                                /\ payouts'[t] = Append(payouts[t],
                                                        [to |-> w, amount |-> pool(t)]) )

\* C10 witness: a claimAfterTimeout made one second after the deadline is in its
\* value transfer, and the task it was made for has a client.
C10_Witness ==
    /\ stack # <<>>
    /\ LET top == stack[Len(stack)] IN
       /\ top.op = "claimAfterTimeout"
       /\ now = top.snap.tasks[top.id].submittedAt + VERIFICATION_TIMEOUT + 1
       /\ tasks[top.id].client \in Addr
       /\ tasks[top.id].state = "Completed"

\* The call of a frame, made again.
Retry(f) ==
    \/ f.op = "approveResult" /\ approveResult(f.sender, f.id)
    \/ f.op = "claimAfterTimeout" /\ claimAfterTimeout(f.sender, f.id)
    \/ f.op = "resolveForWorker" /\ resolveForWorker(f.sender, f.id)
    \/ f.op = "resolveForClient" /\ resolveForClient(f.sender, f.id)
    \/ f.op = "withdraw" /\ withdraw(f.sender)

\* C11: after the value transfer of approveResult, claimAfterTimeout,
\* resolveForWorker, resolveForClient or withdraw has failed, the state of both
\* contracts (tasks, juror records, dense list, index map, balance, payouts made,
\* both locks) is what it was before the call, and the same call can be made again.
C11_FailedTransferAborts ==
    returned.op = "revert" =>
        LET f == returned.frame IN
        /\ taskCount = f.snap.taskCount
        /\ tasks = f.snap.tasks
        /\ disputeResolver = f.snap.disputeResolver
        /\ escrowEntered = f.snap.escrowEntered
        /\ escrowBalance = f.snap.escrowBalance
        /\ payouts = f.snap.payouts
        /\ jurorList = f.snap.jurorList
        /\ jurors = f.snap.jurors
        /\ jurorIndex = f.snap.jurorIndex
        /\ poolDisputeResolver = f.snap.poolDisputeResolver
        /\ poolEntered = f.snap.poolEntered
        /\ f.contract = "escrow" => tasks[f.id].state \in {"Submitted", "Disputed"}
        /\ f.contract = "pool" => jurors[f.sender].active /\ jurors[f.sender].stake = f.amount
        /\ ENABLED Retry(f)

\* C11 witness: a claimAfterTimeout that the worker made from inside its own
\* withdraw has been reverted by its failed transfer, and the withdraw is still
\* in flight.
C11_Witness ==
    /\ returned.op = "revert"
    /\ returned.frame.op = "claimAfterTimeout"
    /\ stack # <<>>
    /\ stack[Len(stack)].op = "withdraw"
    /\ tasks[returned.frame.id].state = "Submitted"

\* The calls of each gated function that a sender can make now.
WrongSenderRejected ==
    \A s \in Addr :
        /\ \A t \in TaskIds :
              /\ s # tasks[t].worker =>
                    ~ENABLED submitResult(s, t) /\ ~ENABLED claimAfterTimeout(s, t)
              /\ s # tasks[t].client =>
                    ~ENABLED approveResult(s, t) /\ ~ENABLED disputeResult(s, t)
              /\ s # disputeResolver =>
                    ~ENABLED resolveForWorker(s, t) /\ ~ENABLED resolveForClient(s, t)
        /\ s # poolDisputeResolver =>
              /\ \A c \in SelectCounts, a \in ExcludeClients, b \in ExcludeWorkers :
                    ~ENABLED selectJurors(s, c, a, b)
              /\ \A a \in Addr, w \in BOOLEAN : ~ENABLED recordVerdict(s, a, w)
              /\ \A a \in Addr, v \in SlashValues : ~ENABLED slashStake(s, a, v)

\* The step is the entry of a resolveForWorker or resolveForClient call for task t
\* made by the coordinator.
CoordinatorResolves(t) ==
    /\ Len(stack') = Len(stack) + 1
    /\ LET f == stack'[Len(stack')] IN
       /\ f.op \in {"resolveForWorker", "resolveForClient"}
       /\ f.id = t
       /\ f.sender = disputeResolver

\* C12: submitResult and claimAfterTimeout are rejected for everyone but the
\* task's worker, approveResult and disputeResult for everyone but the task's
\* client, resolveForWorker, resolveForClient, selectJurors, recordVerdict and
\* slashStake for everyone but the configured coordinator; and a task leaves
\* Disputed only by a coordinator's call (or by the revert of the call in which it
\* became Disputed).
C12_OnlyTheRequiredIdentity ==
    /\ []WrongSenderRejected
    /\ [][ \A t \in TaskIds :
              (tasks[t].state = "Disputed" /\ tasks'[t].state # "Disputed") =>
                  IsRevert \/ CoordinatorResolves(t) ]_vars

\* C12 witness: the coordinator's resolveForClient for a disputed task is in its
\* value transfer, and the pool has a coordinator and an active juror.
C12_Witness ==
    /\ stack # <<>>
    /\ LET f == stack[Len(stack)] IN
       /\ f.op = "resolveForClient"
       /\ f.snap.tasks[f.id].state = "Disputed"
       /\ f.sender = disputeResolver
       /\ tasks[f.id].state = "Refunded"
    /\ poolDisputeResolver \in Addr
    /\ \E j \in Addr : jurors[j].active

\* A task record that some operation has acted upon.
ActedUpon(t) ==
    \/ tasks[t].client # address0
    \/ tasks[t].worker # address0
    \/ tasks[t].workerStake # 0
    \/ tasks[t].state # "Created"

\* C13: every task record that an operation has acted upon has payment > 0.
C13_ActedUponHasPayment ==
    \A t \in TaskIds : ActedUpon(t) => tasks[t].payment > 0

\* C14: casesJudged and correctVerdicts of a juror never decrease (the revert of
\* a call whose transfer failed undoes the call and is no decrease).
C14_CountersNeverDecrease ==
    [][ \/ Len(stack') < Len(stack) /\ returned'.op = "revert"
        \/ \A j \in Addr :
           /\ jurors'[j].casesJudged >= jurors[j].casesJudged
           /\ jurors'[j].correctVerdicts >= jurors[j].correctVerdicts ]_vars

\* C15: a juror that slashStake has deactivated with a remainder of its stake
\* can call withdraw, and the call sends the remainder to the juror.
C15_SlashedJurorCanWithdraw ==
    \A j \in Addr :
        ( /\ stack = <<>>
          /\ ~jurors[j].active
          /\ jurors[j].stake > 0
          /\ jurors[j].stake < MIN_STAKE )
        => ENABLED ( /\ withdraw(j)
                     /\ stack'[Len(stack')].to = j
                     /\ stack'[Len(stack')].amount = jurors[j].stake )

\* Some call of the contract is in its value transfer.
InFlight(contract) == \E i \in 1 .. Len(stack) : stack[i].contract = contract

\* C16: while the value transfer of a lock-guarded call of a contract is in
\* flight, no lock-guarded function of that contract can be entered (escrow:
\* createTask, acceptTask, approveResult, resolveForWorker, resolveForClient,
\* claimAfterTimeout; pool: register, withdraw), by the recipient or anyone; and
\* a lock is held exactly while such a call is in flight, so never between
\* top-level calls, after a commit or after an abort.
C16_LockBlocksNestedEntry ==
    /\ escrowEntered <=> InFlight("escrow")
    /\ poolEntered <=> InFlight("pool")
    /\ InFlight("escrow") =>
          \A s \in Addr :
              /\ \A v \in PaymentValues : ~ENABLED createTask(s, v)
              /\ \A t \in TaskIds :
                    /\ \A v \in StakeValues : ~ENABLED acceptTask(s, t, v)
                    /\ ~ENABLED approveResult(s, t)
                    /\ ~ENABLED resolveForWorker(s, t)
                    /\ ~ENABLED resolveForClient(s, t)
                    /\ ~ENABLED claimAfterTimeout(s, t)
    /\ InFlight("pool") =>
          \A s \in Addr :
              /\ \A v \in RegisterValues : ~ENABLED register(s, v)
              /\ ~ENABLED withdraw(s)

\* C16 witness: the worker, while receiving its stake from withdraw, has claimed
\* task 1 after the timeout and is receiving that payout too; a second task with
\* a payment is Created, so that only the lock stands between the worker and
\* acceptTask.
C16_Witness ==
    /\ Len(stack) = 2
    /\ stack[1].op = "withdraw"
    /\ stack[2].op = "claimAfterTimeout"
    /\ stack[2].to = stack[1].to
    /\ \E t \in TaskIds : tasks[t].state = "Created" /\ tasks[t].payment > 0

\* C17: withdraw by an active juror sends the caller exactly its recorded stake,
\* sets its stake to 0 and active to false, shortens the dense list by exactly one
\* slot and leaves every other juror's record unchanged; between transactions an
\* active juror can always make the call.
C17_WithdrawEffects ==
    /\ [](\A j \in Addr : (stack = <<>> /\ jurors[j].active) => ENABLED withdraw(j))
    /\ [][ (Len(stack') = Len(stack) + 1 /\ stack'[Len(stack')].op = "withdraw") =>
              LET f == stack'[Len(stack')]
                  j == f.sender
              IN  /\ jurors[j].active
                  /\ f.to = j
                  /\ f.amount = jurors[j].stake
                  /\ jurors'[j] = [jurors[j] EXCEPT !.stake = 0, !.active = FALSE]
                  /\ Len(jurorList') = Len(jurorList) - 1
                  /\ \A k \in Addr \ {j} : jurors'[k] = jurors[k] ]_vars

\* C17 witness: a juror that registered with more than the minimum and was
\* slashed down to it has withdrawn from a list of three, and is being sent the
\* minimum.
C17_Witness ==
    /\ stack # <<>>
    /\ LET f == stack[Len(stack)] IN
       /\ f.op = "withdraw"
       /\ f.amount = MIN_STAKE
       /\ Len(f.snap.jurorList) = 3
       /\ Len(jurorList) = 2
       /\ \E k \in Addr \ {f.sender} : jurors[k].active /\ jurors[k].stake = MIN_STAKE + 1

Min(a, b) == IF a < b THEN a ELSE b

\* What the claim says a slashStake(agent, amount) step does.
SlashEffects(agent, amount) ==
    LET left == jurors[agent].stake - Min(amount, jurors[agent].stake) IN
    /\ left >= 0
    /\ jurors'[agent] = [jurors[agent] EXCEPT !.stake = left,
                                              !.active = ~(left < MIN_STAKE)]
    /\ \A k \in Addr \ {agent} : jurors'[k] = jurors[k]
    /\ jurorList' = jurorList
    /\ jurorIndex' = jurorIndex

\* C18: slashStake(agent, amount) by the coordinator on an active juror deducts
\* min(amount, stake) from the stake, deactivates the juror exactly when what is
\* left is below MIN_STAKE, and leaves list and index map as they are; on a juror
\* that is not active it is rejected.
C18_SlashEffects ==
    \A s \in Addr, a \in Addr, v \in SlashValues :
        /\ ~jurors[a].active => ~ENABLED slashStake(s, a, v)
        /\ (jurors[a].active /\ CanCall(s) /\ poolOnlyDisputeResolver(s)) =>
              /\ ENABLED slashStake(s, a, v)
              /\ ~ENABLED (slashStake(s, a, v) /\ ~SlashEffects(a, v))

\* C18 witness: one juror was slashed by more than it had and sits in the list
\* deactivated with stake 0; another was slashed by less and is still active.
C18_Witness ==
    \E j, k \in Addr :
        /\ j \in Range(jurorList) /\ ~jurors[j].active /\ jurors[j].stake = 0
        /\ k \in Range(jurorList) /\ jurors[k].active /\ jurors[k].stake = MIN_STAKE
        /\ Len(jurorList) = 2

\* What the claim says a recordVerdict(agent, wasCorrect) step does.
VerdictEffects(agent, wasCorrect) ==
    /\ IF ~jurors[agent].active
       THEN jurors' = jurors
       ELSE /\ jurors'[agent] =
                  [jurors[agent] EXCEPT
                      !.casesJudged = @ + 1,
                      !.correctVerdicts = IF wasCorrect THEN @ + 1 ELSE @]
            /\ \A k \in Addr \ {agent} : jurors'[k] = jurors[k]
    /\ jurorList' = jurorList
    /\ jurorIndex' = jurorIndex
    /\ UNCHANGED <<escrowVars, poolDisputeResolver, poolEntered, stack>>

\* C19: recordVerdict(agent, wasCorrect) by the coordinator succeeds on a juror
\* that is not active and changes nothing; on an active juror it adds 1 to
\* casesJudged, adds 1 to correctVerdicts exactly if wasCorrect, and changes
\* nothing else; and correctVerdicts <= casesJudged in every reachable state.
\* (Calls are made while casesJudged < MaxVerdicts.)
C19_VerdictEffects ==
    /\ \A j \in Addr : jurors[j].correctVerdicts <= jurors[j].casesJudged
    /\ \A s \in Addr, a \in Addr, w \in BOOLEAN :
          ( /\ CanCall(s)
            /\ poolOnlyDisputeResolver(s)
            /\ jurors[a].casesJudged < MaxVerdicts ) =>
              /\ ENABLED recordVerdict(s, a, w)
              /\ ~ENABLED (recordVerdict(s, a, w) /\ ~VerdictEffects(a, w))

\* C19 witness: an active juror has one case and no correct verdict recorded, and
\* a deactivated juror with no case recorded is still in the list.
C19_Witness ==
    \E j, k \in Addr :
        /\ jurors[j].active /\ jurors[j].casesJudged = 1
        /\ jurors[j].correctVerdicts = 0
        /\ k \in Range(jurorList) /\ ~jurors[k].active /\ jurors[k].casesJudged = 0
        /\ poolDisputeResolver \in Addr

\* C20: while the value transfer of an escrow payout is in flight, the recipient
\* can make no call that changes a task: every state-changing function of the
\* escrow, submitResult and disputeResult on another task included, is rejected.
C20_RecipientCannotChangeTasks ==
    (stack # <<>> /\ stack[Len(stack)].contract = "escrow") =>
        LET r == stack[Len(stack)].to IN
        /\ \A v \in PaymentValues : ~ENABLED createTask(r, v)
        /\ \A t \in TaskIds :
              /\ \A v \in StakeValues : ~ENABLED acceptTask(r, t, v)
              /\ ~ENABLED submitResult(r, t)
              /\ ~ENABLED approveResult(r, t)
              /\ ~ENABLED disputeResult(r, t)
              /\ ~ENABLED resolveForWorker(r, t)
              /\ ~ENABLED resolveForClient(r, t)
              /\ ~ENABLED claimAfterTimeout(r, t)

\* What the claim says a createTask step with a payment does.
CreateEffects(sender, value) ==
    LET id == taskCount + 1 IN
    /\ returned' = [op |-> "createTask", value |-> id]
    /\ taskCount' = id
    /\ tasks[id] = Task0
    /\ tasks'[id] = [client |-> sender, worker |-> address0, payment |-> value,
                     workerStake |-> 0, state |-> "Created", submittedAt |-> 0]
    /\ \A t \in TaskIds \ {id} : tasks'[t] = tasks[t]

\* C21: createTask with payment > 0 returns taskCount + 1, an id greater than
\* every id returned before; the record stored there was untouched until then,
\* and the other records stay as they are; createTask with payment 0 is rejected.
C21_CreateAllocatesFreshId ==
    \A s \in ClientSenders :
        /\ ~ENABLED createTask(s, 0)
        /\ \A v \in PaymentValues \ {0} :
              (stack = <<>> /\ taskCount < MaxTasks) =>
                  /\ ENABLED createTask(s, v)
                  /\ ~ENABLED (createTask(s, v) /\ ~CreateEffects(s, v))

\* The jurors with active = true.
ActiveJurors == {j \in Addr : jurors[j].active}

\* C22: the length of the dense list equals the number of active jurors, and the
\* list holds exactly the active jurors.
C22_ListIsTheActiveJurors ==
    /\ Len(jurorList) = Cardinality(ActiveJurors)
    /\ Range(jurorList) = ActiveJurors

\* C23: every selectJurors call ends after at most 3 x jurorList.length
\* candidates, with at most `count` jurors collected in at least as many
\* attempts; it fails with "Could not select enough jurors" exactly when the
\* budget is used up with fewer than `count` jurors collected, and in no other
\* case does it inspect a candidate after the count is reached.  (Checked for
\* calls that exclude nobody and calls that exclude a client and a worker.)
C23_SelectionIsBounded ==
    \A c \in SelectCounts, e \in {<<address0, address0>>, <<"a1", "a2">>} :
        \A r \in selectJurorsOutcomes(c, e[1], e[2]) :
            LET budget == 3 * Len(jurorList)
                a == e[1]
                b == e[2]
            IN
            /\ r.attempts <= budget
            /\ Len(r.selected) <= c
            /\ Len(r.selected) <= r.attempts
            /\ r.err = "Not enough jurors" <=> Len(jurorList) < c
            /\ r.err = "Could not select enough jurors" <=>
                  (Len(jurorList) >= c /\ Len(r.selected) < c /\ r.attempts = budget)
            /\ r.err = "" <=> (Len(jurorList) >= c /\ Len(r.selected) = c)
            /\ \A idx \in 0 .. Len(jurorList) - 1 :
                  LET s == [selected |-> r.selected, attempts |-> 0]
                  IN  loopBody(s, idx, a, b).attempts = 1

\* C23 witness: a call for two jurors has returned from a list of three of which
\* one is deactivated, where the same call fails for other seeds after using up
\* its 9 attempts.
C23_Witness ==
    /\ returned.op = "selectJurors"
    /\ returned.count = 2
    /\ Len(jurorList) = 3
    /\ \E j \in Range(jurorList) : ~jurors[j].active
    /\ \E r \in selectJurorsOutcomes(2, returned.excludeClient, returned.excludeWorker) :
          r.err = "Could not select enough jurors" /\ r.attempts = 9

\* payment + workerStake summed over the tasks in `ids`.
RECURSIVE SumPools(_)
SumPools(ids) ==
    IF ids = {} THEN 0
    ELSE LET t == CHOOSE x \in ids : TRUE IN pool(t) + SumPools(ids \ {t})

\* C24: the value the escrow holds is the sum of payment + workerStake over the
\* tasks that are not Completed or Refunded.
C24_BalanceIsTheUnsettledPools ==
    escrowBalance = SumPools({t \in TaskIds : tasks[t].state \notin Terminal})

\* C25: a Disputed task takes no submitResult, approveResult, disputeResult,
\* claimAfterTimeout or acceptTask from anyone at any time, and its pool is held
\* by the escrow; every step leaves a Disputed task's record and payouts as they
\* are, except the coordinator's resolveForWorker or resolveForClient (and the
\* revert of the transaction in which it became Disputed).
C25_DisputedWaitsForCoordinator ==
    /\ [](/\ escrowBalance >= SumPools({t \in TaskIds : tasks[t].state = "Disputed"})
          /\ \A t \in TaskIds :
                tasks[t].state = "Disputed" =>
                    \A s \in Addr :
                        /\ ~ENABLED submitResult(s, t)
                        /\ ~ENABLED approveResult(s, t)
                        /\ ~ENABLED disputeResult(s, t)
                        /\ ~ENABLED claimAfterTimeout(s, t)
                        /\ \A v \in StakeValues : ~ENABLED acceptTask(s, t, v))
    /\ [][ \A t \in TaskIds :
              tasks[t].state = "Disputed" =>
                  \/ tasks'[t] = tasks[t] /\ payouts'[t] = payouts[t]
                  \/ CoordinatorResolves(t) /\ tasks'[t].state \in Terminal
                  \/ IsRevert ]_vars

\* C25 witness: a task is Disputed between transactions at an instant after the
\* verification timeout of its submission, with no coordinator configured.
C25_Witness ==
    \E t \in TaskIds :
        /\ tasks[t].state = "Disputed"
        /\ stack = <<>>
        /\ now > tasks[t].submittedAt + VERIFICATION_TIMEOUT
        /\ disputeResolver = address0
        /\ pool(t) > 0
====
